---- MODULE Spec2Model ----
(***************************************************************************)
(* Model of crazydev71/trading-bot: the Bitfinex stream adapter            *)
(* (src/lib/services/bfx_service.js, class BFXSevice) and the signal and   *)
(* order engine (src/lib/simple_bot.js, class SimpleBot).                  *)
(*                                                                         *)
(* Strings are sequences of one-character strings, so that substring and   *)
(* split are computed and not assumed.  Prices are whole numbers; moving   *)
(* averages are fixed-point numbers with EmaScale units per 1; order       *)
(* amounts and profit/loss are whole numbers of 10^-8 (the 8 decimals of   *)
(* toFixed(8)).                                                            *)
(***************************************************************************)
EXTENDS Integers, Sequences, FiniteSets, TLC

VARIABLES
    started,     \* SimpleBot.start() has run (listeners registered)
    wsState,     \* the websocket: "closed", "connecting" or "open"
    openCalls,   \* number of ws.open() calls issued so far
    closeEvents, \* number of 'close' events received so far
    snapPending, \* set of symbols whose candle subscription still owes its snapshot
    tickers,     \* SimpleBot.tickers : symbol -> prices (a function on the keys present)
    candles,     \* SimpleBot.candles : symbol -> sequence of candles
    myOrders,    \* SimpleBot.myOrders
    now,         \* Date.now()
    lastEvent,   \* the inbound event the last handler ran for
    calls,       \* outbound calls on the websocket issued by the last handler
    emitted,     \* what the adapter emitted in the last handler (<<>> if nothing)
    evals,       \* the checkTrade evaluations of the last handler: <<[symbol, signal]>>
    logs,        \* logger.error lines of the last handler
    failure,     \* the exception a handler threw and nothing caught ("none" if none)
    fnIn,        \* input of the pure function under check (function specifications)
    fnOut        \* its result

vars == <<started, wsState, openCalls, closeEvents, snapPending, tickers, candles,
          myOrders, now, lastEvent, calls, emitted, evals, logs, failure, fnIn, fnOut>>

botVars == <<tickers, candles, myOrders>>
fnVars == <<fnIn, fnOut>>

-----------------------------------------------------------------------------
(* Bounds of the model *)

\* events handled in one run (every handler advances the clock by one)
MaxClock == 5
\* longest candle series kept for one symbol
MaxSeries == 22
\* 'close' events in one run
MaxCloses == 2
\* maxSpendInUSD passed to the SimpleBot constructor
MaxSpendInUSD == 10

-----------------------------------------------------------------------------
(* Values *)

Min(a, b) == IF a < b THEN a ELSE b

BTCUSD == <<"B", "T", "C", "U", "S", "D">>
ETHUSD == <<"E", "T", "H", "U", "S", "D">>

\* the symbols passed to the constructors, in forEach order
symbols == <<BTCUSD, ETHUSD>>

SymbolSet == {symbols[i] : i \in 1..Len(symbols)}

\* `t${symbol}`
TickerPair(symbol) == <<"t">> \o symbol

\* `trade:1m:t${symbol}`
CandleKey(symbol) == <<"t", "r", "a", "d", "e", ":", "1", "m", ":", "t">> \o symbol

-----------------------------------------------------------------------------
(* BFXSevice: pure helpers *)

\* String.prototype.substring(from, to) with 0-based, end-exclusive indices
Substring(str, from, to) == SubSeq(str, from + 1, Min(to, Len(str)))

\* formatSymbol without the test of the first character
formatSymbolRaw(pair) == pair

formatSymbol(pair) ==
    IF Substring(pair, 0, 1) = <<"t">>
    THEN Substring(pair, 1, Len(pair))
    ELSE pair

\* String.prototype.split(':')
RECURSIVE SplitFrom(_, _, _)
SplitFrom(str, i, field) ==
    IF i > Len(str) THEN <<field>>
    ELSE IF str[i] = ":" THEN <<field>> \o SplitFrom(str, i + 1, <<>>)
    ELSE SplitFrom(str, i + 1, Append(field, str[i]))

Split(str) == SplitFrom(str, 1, <<>>)

ReverseForgotten(s) == s

\* Array.prototype.reverse
Reverse(s) == [i \in 1..Len(s) |-> s[Len(s) + 1 - i]]

HasMtsAlways(candle) == TRUE

\* typeof candle.mts !== 'undefined': a candle without timestamp is a record
\* with no mts field
HasMts(candle) == "mts" \in DOMAIN candle

\* the array onCandles builds before filtering: a reversed array payload, or the one object
MyCandles(payload) ==
    IF payload.isArray THEN Reverse(payload.items) ELSE <<payload.item>>

\* .filter(...).map(candle => ({ symbol, candle }))
Sticks(payload, pair) ==
    LET options == Split(pair)
        symbol == formatSymbol(options[3])
        valid == SelectSeq(MyCandles(payload), HasMts)
    IN [i \in 1..Len(valid) |-> [symbol |-> symbol, candle |-> valid[i]]]

-----------------------------------------------------------------------------
(* The moving-average library (technicalindicators, precision 8) as the      *)
(* bot calls it.  The library computes in doubles and rounds what it returns *)
(* to 8 decimals; here a moving average is a fixed-point number, the value   *)
(* times EmaScale rounded to the nearest unit, which keeps every product     *)
(* within 32 bits for prices up to 500.  An average equals the last price    *)
(* exactly when it does in the library on the series used below (a constant  *)
(* tail of whole prices).                                                    *)

EmaScale == 10 ^ 5

\* a / b rounded to the nearest whole number (a >= 0, b > 0)
RoundDiv(a, b) == (2 * a + b) \div (2 * b)

RECURSIVE SumRange(_, _, _)
SumRange(values, from, to) ==
    IF from > to THEN 0 ELSE values[from] + SumRange(values, from + 1, to)

\* SMA.calculate({ period, values }): one average per full window, oldest first;
\* empty when values is shorter than period
SMACalculate(period, values) ==
    [j \in 1..(IF Len(values) >= period THEN Len(values) - period + 1 ELSE 0) |->
        RoundDiv(SumRange(values, j, j + period - 1) * EmaScale, period)]

\* EMA.calculate({ period, values }): the first value is the SMA of the first
\* `period` values, each later one is prev + (tick - prev) * 2 / (period + 1)
RECURSIVE EMAFrom(_, _, _, _)
EMAFrom(period, values, i, prev) ==
    IF i > Len(values) THEN <<>>
    ELSE LET next == RoundDiv(2 * values[i] * EmaScale + (period - 1) * prev, period + 1)
         IN <<next>> \o EMAFrom(period, values, i + 1, next)

EMACalculate(period, values) ==
    IF Len(values) < period THEN <<>>
    ELSE LET first == RoundDiv(SumRange(values, 1, period) * EmaScale, period)
         IN <<first>> \o EMAFrom(period, values, period + 1, first)

-----------------------------------------------------------------------------
(* SimpleBot: the signal engine *)

\* const periods = [5, 10, 20]
periods == <<5, 10, 20>>

\* maCurrent = ma[ma.length - 1] is undefined when ma is empty, and a comparison
\* with undefined is false
MaGreater(ma, lastPrice) == Len(ma) > 0 /\ ma[Len(ma)] > lastPrice * EmaScale
\* a comparison in which a missing average counts as below the price
MaLessOrMissing(ma, lastPrice) == Len(ma) = 0 \/ ma[Len(ma)] < lastPrice * EmaScale

MaLess(ma, lastPrice) == Len(ma) > 0 /\ ma[Len(ma)] < lastPrice * EmaScale

VoteStepSwapped(acc, ma, lastPrice) ==
    IF MaGreater(ma, lastPrice) THEN [acc EXCEPT !.buy = @ + 1]
    ELSE IF MaLess(ma, lastPrice) THEN [acc EXCEPT !.sell = @ + 1]
    ELSE acc

\* the body of periods.forEach in ema()/sma()
VoteStep(acc, ma, lastPrice) ==
    IF MaGreater(ma, lastPrice) THEN [acc EXCEPT !.sell = @ + 1]
    ELSE IF MaLess(ma, lastPrice) THEN [acc EXCEPT !.buy = @ + 1]
    ELSE acc

RECURSIVE EmaVotes(_, _, _)
EmaVotes(values, k, acc) ==
    IF k > Len(periods) THEN acc
    ELSE EmaVotes(values, k + 1,
             VoteStep(acc, EMACalculate(periods[k], values), values[Len(values)]))

RECURSIVE SmaVotes(_, _, _)
SmaVotes(values, k, acc) ==
    IF k > Len(periods) THEN acc
    ELSE SmaVotes(values, k + 1,
             VoteStep(acc, SMACalculate(periods[k], values), values[Len(values)]))

VoteResultMajority(acc) ==
    IF acc.buy >= 2 THEN "buy"
    ELSE IF acc.sell >= 2 THEN "sell"
    ELSE "neutral"

\* the returns after the forEach
VoteResult(acc) ==
    IF acc.buy = Len(periods) THEN "buy"
    ELSE IF acc.sell = Len(periods) THEN "sell"
    ELSE "neutral"

ema(values) ==
    IF Len(values) = 0 THEN "unknown"
    ELSE VoteResult(EmaVotes(values, 1, [buy |-> 0, sell |-> 0]))

sma(values) ==
    IF Len(values) = 0 THEN "unknown"
    ELSE VoteResult(SmaVotes(values, 1, [buy |-> 0, sell |-> 0]))

signalEither(values) ==
    LET emaResult == ema(values)
        smaResult == sma(values)
    IN IF emaResult = "buy" \/ smaResult = "buy" THEN "buy"
       ELSE IF emaResult = "sell" \/ smaResult = "sell" THEN "sell"
       ELSE "neutral"

signal(values) ==
    LET emaResult == ema(values)
        smaResult == sma(values)
    IN IF emaResult = "buy" /\ smaResult = "buy" THEN "buy"
       ELSE IF emaResult = "sell" /\ smaResult = "sell" THEN "sell"
       ELSE "neutral"

-----------------------------------------------------------------------------
(* SimpleBot: the order simulator and ledger.  bot is the record of the      *)
(* instance's fields [tickers, candles, myOrders].                           *)

\* Math.random() returns rnd / RandDen, rnd drawn from RandNums
RandDen == 4
RandNums == {0, 3}

\* amount.toFixed(8)
FixedDigits == 8

RECURSIVE LongDiv(_, _, _, _)
LongDiv(rem, den, digits, acc) ==
    IF digits = 0 THEN acc + (IF 2 * rem >= den THEN 1 ELSE 0)
    ELSE LongDiv((rem * 10) % den, den, digits - 1, acc * 10 + ((rem * 10) \div den))

\* (num / den).toFixed(digits), as a whole number of 10^-digits
ToFixed(num, den, digits) == LongDiv(num % den, den, digits, num \div den)

\* formatCandles(candles).close
formatCandles(series) == [i \in 1..Len(series) |-> series[i].close]

RECURSIVE PoLFromLong(_, _, _)
PoLFromLong(bot, i, value) ==
    IF i > Len(bot.myOrders) THEN value
    ELSE LET o == bot.myOrders[i]
         IN IF o.symbol \in DOMAIN bot.candles
            THEN LET series == bot.candles[o.symbol]
                     lastClose == series[Len(series)].close
                 IN PoLFromLong(bot, i + 1, value + (lastClose - o.price) * o.amount)
            ELSE PoLFromLong(bot, i + 1, value)

RECURSIVE PoLFrom(_, _, _)
PoLFrom(bot, i, value) ==
    IF i > Len(bot.myOrders) THEN value
    ELSE LET o == bot.myOrders[i]
         IN IF o.symbol \in DOMAIN bot.candles
            THEN LET series == bot.candles[o.symbol]
                     lastClose == series[Len(series)].close
                     change == (IF o.signal = "buy" THEN 1 ELSE -1)
                               * (lastClose - o.price) * o.amount
                 IN PoLFrom(bot, i + 1, value + change)
            ELSE PoLFrom(bot, i + 1, value)

getCurrentPoL(bot) == PoLFrom(bot, 1, 0)

placeOrderOverwrite(bot, symbol, sig, price, amount, t) ==
    [bot EXCEPT !.myOrders = <<[symbol |-> symbol, signal |-> sig, price |-> price,
                                amount |-> amount, timestamp |-> t]>>]

\* placeOrder(symbol, signal, price, amount): pushes the order, stamped Date.now()
placeOrder(bot, symbol, sig, price, amount, t) ==
    [bot EXCEPT !.myOrders = Append(@, [symbol |-> symbol, signal |-> sig, price |-> price,
                                        amount |-> amount, timestamp |-> t])]

ReadyCandlesOnly(bot, symbol) == symbol \in DOMAIN bot.candles

\* if(this.tickers[symbol] && this.candles[symbol])
Ready(bot, symbol) == symbol \in DOMAIN bot.tickers /\ symbol \in DOMAIN bot.candles

\* checkTrade pricing the order at the first close of the series
checkTradeFirstClose(bot, symbol, rnd, t) ==
    IF Ready(bot, symbol)
    THEN LET close == formatCandles(bot.candles[symbol])
             sig == signal(close)
             price == close[1]
             after == IF sig \in {"buy", "sell"}
                      THEN placeOrder(bot, symbol, sig, price,
                                      ToFixed(rnd * MaxSpendInUSD, RandDen * price, FixedDigits), t)
                      ELSE bot
         IN [bot |-> after,
             evals |-> <<[symbol |-> symbol, signal |-> sig, pol |-> getCurrentPoL(after)]>>]
    ELSE [bot |-> bot, evals |-> <<>>]

\* checkTrade pricing the order at the ticker's bid
checkTradeBid(bot, symbol, rnd, t) ==
    IF Ready(bot, symbol)
    THEN LET close == formatCandles(bot.candles[symbol])
             sig == signal(close)
             price == bot.tickers[symbol].bid
             after == IF sig \in {"buy", "sell"}
                      THEN placeOrder(bot, symbol, sig, price,
                                      ToFixed(rnd * MaxSpendInUSD, RandDen * price, FixedDigits), t)
                      ELSE bot
         IN [bot |-> after,
             evals |-> <<[symbol |-> symbol, signal |-> sig, pol |-> getCurrentPoL(after)]>>]
    ELSE [bot |-> bot, evals |-> <<>>]

\* checkTrade(symbol): the bot afterwards and what it evaluated (nothing when
\* the symbol has no ticker or no candles)
checkTrade(bot, symbol, rnd, t) ==
    IF Ready(bot, symbol)
    THEN LET close == formatCandles(bot.candles[symbol])
             sig == signal(close)
             price == close[Len(close)]
             after == IF sig \in {"buy", "sell"}
                      THEN placeOrder(bot, symbol, sig, price,
                                      ToFixed(rnd * MaxSpendInUSD, RandDen * price, FixedDigits), t)
                      ELSE bot
         IN [bot |-> after,
             evals |-> <<[symbol |-> symbol, signal |-> sig, pol |-> getCurrentPoL(after)]>>]
    ELSE [bot |-> bot, evals |-> <<>>]

\* the first forEach of onUpdateCandles: push every candle on its symbol's series
RECURSIVE MergeSticks(_, _, _)
MergeSticks(store, sticks, i) ==
    IF i > Len(sticks) THEN store
    ELSE LET sym == sticks[i].symbol
             old == IF sym \in DOMAIN store THEN store[sym] ELSE <<>>
         IN MergeSticks([k \in DOMAIN store \cup {sym} |->
                            IF k = sym THEN Append(old, sticks[i].candle) ELSE store[k]],
                        sticks, i + 1)

\* the symbols of the first two candles of the batch, a repeated symbol kept
UpdatedSymbolsPerCandle(sticks, i, acc) == [j \in 1..Min(Len(sticks), 2) |-> sticks[j].symbol]

\* Object.keys(updatedSymbols): the symbols of the batch in order of first appearance
RECURSIVE UpdatedSymbols(_, _, _)
UpdatedSymbols(sticks, i, acc) ==
    IF i > Len(sticks) THEN acc
    ELSE IF \E k \in 1..Len(acc) : acc[k] = sticks[i].symbol
    THEN UpdatedSymbols(sticks, i + 1, acc)
    ELSE UpdatedSymbols(sticks, i + 1, Append(acc, sticks[i].symbol))

\* the second forEach of onUpdateCandles: checkTrade for every updated symbol
RECURSIVE CheckAll(_, _, _, _, _)
CheckAll(res, updated, k, rnds, t) ==
    IF k > Len(updated) THEN res
    ELSE LET one == checkTrade(res.bot, updated[k], rnds[k], t)
         IN CheckAll([bot |-> one.bot, evals |-> res.evals \o one.evals],
                     updated, k + 1, rnds, t)

onUpdateCandles(bot, sticks, rnds, t) ==
    CheckAll([bot |-> [bot EXCEPT !.candles = MergeSticks(@, sticks, 1)], evals |-> <<>>],
             UpdatedSymbols(sticks, 1, <<>>), 1, rnds, t)

\* a listener that replaces the whole ticker store by the one update
onUpdateTickersReset(bot, update) ==
    [bot EXCEPT !.tickers = (update.symbol :> update.prices)]

onUpdateTickers(bot, update) ==
    [bot EXCEPT !.tickers = [k \in DOMAIN @ \cup {update.symbol} |->
                                IF k = update.symbol THEN update.prices ELSE @[k]]]

-----------------------------------------------------------------------------
(* What the exchange delivers *)

\* candles of a snapshot
SnapLen == 20

Candle(mts, close) == [mts |-> mts, close |-> close]
NoMts(close) == [close |-> close]

\* a snapshot as the exchange sends it, newest first: minute j closes at 100 + j
SnapAsc == [i \in 1..SnapLen |-> Candle(SnapLen + 1 - i, 100 + SnapLen + 1 - i)]

ArrayPayloads ==
    { [isArray |-> TRUE, items |-> items] : items \in
        { SnapAsc,
          <<Candle(2, 102), NoMts(101), Candle(1, 101)>>,   \* newest first, one malformed
          <<NoMts(101)>>,                                   \* nothing valid
          <<>> } }

\* an update of the minute after the snapshot: below, inside and above the trend
ObjectPayloads ==
    { [isArray |-> FALSE, item |-> c] : c \in
        { Candle(SnapLen + 1, 90), Candle(SnapLen + 1, 115), Candle(SnapLen + 1, 130),
          NoMts(115) } }

TickerPayloads == { [bid |-> 100, ask |-> 101], [bid |-> 200, ask |-> 201] }

-----------------------------------------------------------------------------
(* The state machine *)

Call(op, arg) == [op |-> op, arg |-> arg]

NoEvent == [type |-> "none"]

Bot == [tickers |-> tickers, candles |-> candles, myOrders |-> myOrders]

NoInput == [fn |-> "none"]
NotDone == [done |-> FALSE]

\* the state once both objects are constructed
Constructed ==
    /\ started = FALSE
    /\ wsState = "closed"
    /\ openCalls = 0
    /\ closeEvents = 0
    /\ snapPending = {}
    /\ tickers = <<>>
    /\ candles = <<>>
    /\ myOrders = <<>>
    /\ now = 0
    /\ lastEvent = NoEvent
    /\ calls = <<>>
    /\ emitted = <<>>
    /\ evals = <<>>
    /\ logs = <<>>
    /\ failure = "none"

Init ==
    /\ Constructed
    /\ fnIn = NoInput
    /\ fnOut = NotDone

\* SimpleBot.start(): registers the listeners and BFXSevice.start() opens the socket
Start ==
    /\ ~started /\ failure = "none"
    /\ started' = TRUE
    /\ wsState' = "connecting"
    /\ openCalls' = openCalls + 1
    /\ calls' = <<Call("open", <<>>)>>
    /\ lastEvent' = [type |-> "start"]
    /\ emitted' = <<>>
    /\ evals' = <<>>
    /\ logs' = <<>>
    /\ UNCHANGED <<closeEvents, snapPending, botVars, now, failure, fnVars>>

SubscribeCallsFirstOnly(i) ==
    <<Call("subscribeTicker", TickerPair(symbols[1])),
      Call("subscribeCandles", CandleKey(symbols[1]))>>

\* the calls of the symbols.forEach in the 'open' listener
RECURSIVE SubscribeCalls(_)
SubscribeCalls(i) ==
    IF i > Len(symbols) THEN <<>>
    ELSE <<Call("subscribeTicker", TickerPair(symbols[i])),
           Call("subscribeCandles", CandleKey(symbols[i]))>> \o SubscribeCalls(i + 1)

\* ws.on('open', ...)
OnOpen ==
    /\ started /\ failure = "none" /\ wsState = "connecting" /\ now < MaxClock
    /\ wsState' = "open"
    /\ calls' = SubscribeCalls(1)
    /\ snapPending' = { formatSymbol(Split(c.arg)[3]) :
                          c \in { calls'[i] : i \in { j \in 1..Len(calls') :
                                                      calls'[j].op = "subscribeCandles" } } }
    /\ lastEvent' = [type |-> "open"]
    /\ now' = now + 1
    /\ emitted' = <<>>
    /\ evals' = <<>>
    /\ logs' = <<>>
    /\ UNCHANGED <<started, openCalls, closeEvents, botVars, failure, fnVars>>

\* ws.on('close', ...)
OnClose ==
    /\ started /\ failure = "none" /\ wsState \in {"connecting", "open"}
    /\ now < MaxClock /\ closeEvents < MaxCloses
    /\ closeEvents' = closeEvents + 1
    /\ logs' = <<"Bitfinex: Connection closed">>
    /\ calls' = <<Call("open", <<>>)>>
    /\ openCalls' = openCalls + 1
    /\ wsState' = "connecting"
    /\ snapPending' = {}
    /\ lastEvent' = [type |-> "close"]
    /\ now' = now + 1
    /\ emitted' = <<>>
    /\ evals' = <<>>
    /\ UNCHANGED <<started, botVars, failure, fnVars>>

\* an 'error' listener that logs and opens the socket again
OnErrorReopen ==
    /\ started /\ failure = "none" /\ now < MaxClock
    /\ logs' = <<"Bitfinex: error">>
    /\ calls' = <<Call("open", <<>>)>>
    /\ openCalls' = openCalls + 1
    /\ wsState' = "connecting"
    /\ snapPending' = {}
    /\ lastEvent' = [type |-> "error"]
    /\ now' = now + 1
    /\ emitted' = <<>>
    /\ evals' = <<>>
    /\ UNCHANGED <<started, closeEvents, botVars, failure, fnVars>>

\* ws.on('error', ...)
OnError ==
    /\ started /\ failure = "none" /\ now < MaxClock
    /\ logs' = <<"Bitfinex: error">>
    /\ calls' = <<>>
    /\ lastEvent' = [type |-> "error"]
    /\ now' = now + 1
    /\ emitted' = <<>>
    /\ evals' = <<>>
    /\ UNCHANGED <<started, wsState, openCalls, closeEvents, snapPending, botVars,
                   failure, fnVars>>

\* BFXSevice.onTicker: what it emits as 'ticker'
onTicker(pair, ticker) ==
    [symbol |-> formatSymbol(pair), prices |-> [bid |-> ticker.bid, ask |-> ticker.ask]]

\* ws.on('ticker', ...) and the bot's listener onUpdateTickers
OnTickerEvent(pair, ticker) ==
    /\ started /\ failure = "none" /\ wsState = "open"
    /\ LET update == onTicker(pair, ticker)
           after == onUpdateTickers(Bot, update)
       IN /\ tickers' = after.tickers
          /\ candles' = after.candles
          /\ myOrders' = after.myOrders
          /\ emitted' = <<update>>
    /\ lastEvent' = [type |-> "ticker", pair |-> pair, payload |-> ticker]
    /\ now' = now + 1
    /\ calls' = <<>>
    /\ evals' = <<>>
    /\ logs' = <<>>
    /\ UNCHANGED <<started, wsState, openCalls, closeEvents, failure, fnVars>>

\* onCandles throws before it emits anything: options[2] is undefined when the
\* channel key has fewer than three fields, and formatSymbol calls
\* undefined.substring
onCandlesThrows(pair) == Len(Split(pair)) < 3

\* ws.on('candle', ...): BFXSevice.onCandles and, when it emits 'candles', the
\* bot's listener onUpdateCandles.  Nothing catches what onCandles throws: the
\* exception leaves the listener and ends the process.
OnCandleEvent(payload, pair, rnd) ==
    /\ started /\ failure = "none" /\ wsState = "open"
    /\ IF onCandlesThrows(pair)
       THEN /\ failure' = "TypeError"
            /\ logs' = <<>>
            /\ emitted' = <<>>
            /\ evals' = <<>>
            /\ UNCHANGED botVars
       ELSE /\ failure' = failure
            /\ \E sticks \in {Sticks(payload, pair)} :
                 IF Len(sticks) = 0
                 THEN /\ logs' = <<"Candle issue">>
                      /\ emitted' = <<>>
                      /\ evals' = <<>>
                      /\ UNCHANGED botVars
                 ELSE \E res \in {onUpdateCandles(Bot, sticks,
                                                  [k \in 1..Len(sticks) |-> rnd], now + 1)} :
                         /\ logs' = <<>>
                         /\ emitted' = sticks
                         /\ evals' = res.evals
                         /\ tickers' = res.bot.tickers
                         /\ candles' = res.bot.candles
                         /\ myOrders' = res.bot.myOrders
    /\ lastEvent' = [type |-> "candle", pair |-> pair, payload |-> payload]
    /\ now' = now + 1
    /\ calls' = <<>>
    /\ UNCHANGED <<started, wsState, openCalls, closeEvents, fnVars>>

\* the series held for a symbol (none before its first candle)
Held(symbol) == IF symbol \in DOMAIN candles THEN candles[symbol] ELSE <<>>

\* a ticker of a subscribed symbol arrives
TickerEvent ==
    /\ now < MaxClock
    /\ \E s \in SymbolSet, ticker \in TickerPayloads : OnTickerEvent(TickerPair(s), ticker)
    /\ UNCHANGED snapPending

\* a candle event of a subscribed symbol arrives: the snapshot the subscription
\* owes (an array), or after it an update (one object)
CandleEvent ==
    /\ now < MaxClock
    /\ \E s \in SymbolSet, payload \in ArrayPayloads \cup ObjectPayloads, rnd \in RandNums :
          /\ payload.isArray <=> s \in snapPending
          /\ Len(Held(s)) + (IF payload.isArray THEN Len(payload.items) ELSE 1) <= MaxSeries
          /\ OnCandleEvent(payload, CandleKey(s), rnd)
          /\ snapPending' = snapPending \ {s}

\* a channel key without its pair field
MalformedKey == <<"t", "r", "a", "d", "e", ":", "1", "m">>

\* a candle event arrives under a malformed channel key
MalformedCandleEvent ==
    /\ now < MaxClock
    /\ \E rnd \in RandNums :
          OnCandleEvent([isArray |-> FALSE, item |-> Candle(SnapLen + 1, 115)], MalformedKey, rnd)
    /\ UNCHANGED snapPending

Next ==
    Start \/ OnOpen \/ OnClose \/ OnError \/ TickerEvent \/ CandleEvent \/ MalformedCandleEvent

Spec == Init /\ [][Next]_vars

-----------------------------------------------------------------------------
(* Properties of the running engine, checked under Spec *)

\* a handler ran in this step
Handled == now' # now

HasCall(op, arg) == \E i \in 1..Len(calls) : calls[i] = [op |-> op, arg |-> arg]

\* C1: reconnection.  The handler of 'close' issues a new open(), and the
\* handler of 'open' issues subscribeTicker("t" + s) and
\* subscribeCandles("trade:1m:t" + s) for every configured symbol s, after any
\* number of close/open cycles.
C1_Reconnect ==
    /\ lastEvent.type = "close" => HasCall("open", <<>>)
    /\ lastEvent.type = "open" =>
          \A s \in {BTCUSD, ETHUSD} :
             /\ HasCall("subscribeTicker", <<"t">> \o s)
             /\ HasCall("subscribeCandles",
                        <<"t", "r", "a", "d", "e", ":", "1", "m", ":", "t">> \o s)

\* the socket opened again after two closes
C1_Witness == closeEvents >= 2 /\ lastEvent.type = "open" /\ Len(calls) = 4

\* timestamps of a series never decrease, oldest first
Ordered(series) ==
    \A i \in 1..Len(series), j \in 1..Len(series) : i < j => series[i].mts <= series[j].mts

\* C2: in every reachable state each symbol's stored series is ordered oldest
\* first with non-decreasing timestamps.
C2_SeriesOrdered == \A s \in DOMAIN candles : Ordered(candles[s])

\* C4: a candle without timestamp never appears in any symbol's series,
\* whether it came as one object or inside an array with valid candles.
C4_NoCandleWithoutTimestamp ==
    \A s \in DOMAIN candles : \A i \in 1..Len(candles[s]) : "mts" \in DOMAIN candles[s][i]

\* an array that mixes valid candles with one without timestamp was stored
C4_Witness ==
    /\ lastEvent.type = "candle" /\ lastEvent.payload.isArray
    /\ \E i \in 1..Len(lastEvent.payload.items) : "mts" \notin DOMAIN lastEvent.payload.items[i]
    /\ Len(emitted) = 2
    /\ Len(candles[emitted[1].symbol]) >= 2

TradeSignals == {"buy", "sell"}

\* C9: the ledger is append-only and its orders immutable: every step keeps
\* the orders already there at their positions, unchanged; every order's
\* signal is buy or sell; and a step appends exactly one order per evaluation
\* that came out buy or sell (none for neutral or unknown).
C9_LedgerAppendOnly ==
    [][ /\ Len(myOrders') >= Len(myOrders)
        /\ SubSeq(myOrders', 1, Len(myOrders)) = myOrders
        /\ \A i \in 1..Len(myOrders') : myOrders'[i].signal \in TradeSignals
        /\ Handled =>
              Len(myOrders') - Len(myOrders)
                 = Cardinality({k \in 1..Len(evals') : evals'[k].signal \in TradeSignals})
      ]_vars

\* a second order was appended behind an earlier one
C9_Witness ==
    /\ Len(myOrders) >= 2
    /\ myOrders[1].timestamp < myOrders[2].timestamp
    /\ myOrders[1].amount > 0

\* C10: a candle batch for a symbol without ticker is stored, but nothing is
\* evaluated, no order is appended and nothing is logged as an error; and every
\* order in the ledger is for a symbol that has a ticker and at least one candle.
C10_NotReadyIsNoOp ==
    [][ /\ ( /\ Handled /\ lastEvent'.type = "candle" /\ Len(emitted') > 0
             /\ emitted'[1].symbol \notin DOMAIN tickers' )
           => /\ evals' = <<>>
              /\ myOrders' = myOrders
              /\ logs' = <<>>
              /\ candles'[emitted'[1].symbol]
                   = Held(emitted'[1].symbol) \o [i \in 1..Len(emitted') |-> emitted'[i].candle]
        /\ \A i \in 1..Len(myOrders') :
              /\ myOrders'[i].symbol \in DOMAIN tickers'
              /\ myOrders'[i].symbol \in DOMAIN candles'
              /\ Len(candles'[myOrders'[i].symbol]) >= 1
      ]_vars

\* a full snapshot was stored for a symbol that has no ticker
C10_Witness ==
    /\ lastEvent.type = "candle" /\ Len(emitted) >= 20
    /\ emitted[1].symbol \notin DOMAIN tickers
    /\ emitted[1].symbol \in DOMAIN candles
    /\ evals = <<>>

-----------------------------------------------------------------------------
(* The adapter's normalisation as a function of one candle event, checked    *)
(* under SpecCandles: any array of up to MaxArray candles, in any order.     *)

MaxArray == 3

CandleAlphabet == {NoMts(100), Candle(1, 101), Candle(2, 102), Candle(3, 103)}

RECURSIVE ArraysOf(_)
ArraysOf(n) ==
    IF n = 0 THEN {<<>>}
    ELSE LET shorter == ArraysOf(n - 1)
         IN shorter \cup {Append(a, c) : a \in {b \in shorter : Len(b) = n - 1},
                                         c \in CandleAlphabet}

CandleInputs ==
    { [payload |-> [isArray |-> TRUE, items |-> a], pair |-> CandleKey(s)] :
         a \in ArraysOf(MaxArray), s \in SymbolSet }
    \cup { [payload |-> [isArray |-> FALSE, item |-> c], pair |-> CandleKey(s)] :
         c \in CandleAlphabet, s \in SymbolSet }

InitCandles == Constructed /\ fnIn \in CandleInputs /\ fnOut = NotDone

\* onCandles on the event, and the series a fresh store holds after
\* onUpdateCandles merged what was emitted
ApplyCandles ==
    /\ ~fnOut.done
    /\ \E sticks \in {Sticks(fnIn.payload, fnIn.pair)} :
          fnOut' = [done |-> TRUE, sticks |-> sticks,
                    store |-> IF Len(sticks) = 0 THEN <<>> ELSE MergeSticks(<<>>, sticks, 1)]
    /\ UNCHANGED <<started, wsState, openCalls, closeEvents, snapPending, botVars, now,
                   lastEvent, calls, emitted, evals, logs, failure, fnIn>>

SpecCandles == InitCandles /\ [][ApplyCandles]_vars

\* the candles of an array that carry a timestamp, in the array's order
ValidItems(payload) == SelectSeq(payload.items, LAMBDA c : "mts" \in DOMAIN c)

\* newest first: timestamps never increase along the array
NewestFirst(items) ==
    \A i \in 1..Len(items), j \in 1..Len(items) : i < j => items[i].mts >= items[j].mts

\* the segment a fresh store holds for the event's symbol
Segment == IF fnOut.store = <<>> THEN <<>> ELSE fnOut.store[fnOut.sticks[1].symbol]

\* C3 as claimed: for an array payload the appended segment is in
\* non-decreasing timestamp order whatever the order of the input array.
C3_OrderedWhateverTheInput ==
    (fnOut.done /\ fnIn.payload.isArray) => Ordered(Segment)

\* C3 as the code has it: the adapter reverses and does not sort, so for an
\* array payload the appended segment is in non-decreasing timestamp order
\* exactly when the timestamped candles of the input array are newest first.
C3_OrderedIffNewestFirst ==
    (fnOut.done /\ fnIn.payload.isArray) =>
        (Ordered(Segment) <=> NewestFirst(ValidItems(fnIn.payload)))

\* a newest-first array of three candles came out oldest first
C3_Witness ==
    /\ fnOut.done /\ fnIn.payload.isArray
    /\ Len(Segment) = 3
    /\ Segment[1].mts < Segment[2].mts /\ Segment[2].mts < Segment[3].mts
    /\ fnIn.payload.items[1].mts > fnIn.payload.items[3].mts

-----------------------------------------------------------------------------
(* The signal engine as a function of the close series, checked under        *)
(* SpecSignal: the empty series, and trends of every length up to MaxSeries  *)
(* (rising, flat, falling, and rising or falling by two) with or without one *)
(* or two last closes off the trend.                                         *)

Trend(n, d) == [i \in 1..n |-> 100 + d * i]

Slopes == {-2, -1, 0, 1, 2}

\* two closes off the trend, where the two families weigh them differently
Shocks == {<<130, 80>>, <<85, 110>>, <<60, 110>>, <<90, 80>>, <<70, 65>>, <<60, 75>>}

SignalInputs ==
    {<<>>}
    \cup { Trend(n, d) : n \in 1..MaxSeries, d \in Slopes }
    \cup { Append(Trend(n, d), c) : n \in 1..(MaxSeries - 1), d \in Slopes, c \in {90, 115, 130} }
    \cup { Trend(MaxSeries - 2, d) \o tail : d \in Slopes, tail \in Shocks }

InitSignal == Constructed /\ fnIn \in SignalInputs /\ fnOut = NotDone

\* a bot that holds a ticker and, as its BTCUSD series, candles with the given closes
SignalBot(values) ==
    [tickers |-> (BTCUSD :> [bid |-> 100, ask |-> 101]),
     candles |-> IF Len(values) = 0 THEN <<>>
                 ELSE (BTCUSD :> [i \in 1..Len(values) |-> Candle(i, values[i])]),
     myOrders |-> <<>>]

\* the votes and the combined signal on the closes, and the ledger after
\* checkTrade on a bot holding them
ApplySignal ==
    /\ ~fnOut.done
    /\ fnOut' = [done |-> TRUE, ema |-> ema(fnIn), sma |-> sma(fnIn), signal |-> signal(fnIn),
                 orders |-> checkTrade(SignalBot(fnIn), BTCUSD, 3, 1).bot.myOrders]
    /\ UNCHANGED <<started, wsState, openCalls, closeEvents, snapPending, botVars, now,
                   lastEvent, calls, emitted, evals, logs, failure, fnIn>>

SpecSignal == InitSignal /\ [][ApplySignal]_vars

PeriodSet == {5, 10, 20}

LastPrice(values) == values[Len(values)] * EmaScale

\* the latest average of a period exists and is below (above) the last price
EmaBelow(values, p) ==
    LET ma == EMACalculate(p, values) IN Len(ma) > 0 /\ ma[Len(ma)] < LastPrice(values)
EmaAbove(values, p) ==
    LET ma == EMACalculate(p, values) IN Len(ma) > 0 /\ ma[Len(ma)] > LastPrice(values)
SmaBelow(values, p) ==
    LET ma == SMACalculate(p, values) IN Len(ma) > 0 /\ ma[Len(ma)] < LastPrice(values)
SmaAbove(values, p) ==
    LET ma == SMACalculate(p, values) IN Len(ma) > 0 /\ ma[Len(ma)] > LastPrice(values)

AllBuy(values) == \A p \in PeriodSet : EmaBelow(values, p) /\ SmaBelow(values, p)
AllSell(values) == \A p \in PeriodSet : EmaAbove(values, p) /\ SmaAbove(values, p)

\* buy iff every period of both families votes buy, sell iff every one votes
\* sell, neutral otherwise: for a non-empty series
CombinedRule ==
    Len(fnIn) > 0 =>
       /\ fnOut.signal = "buy" <=> AllBuy(fnIn)
       /\ fnOut.signal = "sell" <=> AllSell(fnIn)
       /\ fnOut.signal = "neutral" <=> (~AllBuy(fnIn) /\ ~AllSell(fnIn))

\* C5 as claimed: the combined signal follows the rule above on a non-empty
\* series and is `unknown` on the empty series.
C5_UnknownOnEmpty ==
    fnOut.done => (CombinedRule /\ (Len(fnIn) = 0 => fnOut.signal = "unknown"))

\* C5 as the code has it: the combined signal follows the rule above on a
\* non-empty series, and on the empty series, where both votes are `unknown`,
\* it is `neutral`; it is never `unknown`.
C5_CombinedSignal ==
    fnOut.done =>
       /\ CombinedRule
       /\ Len(fnIn) = 0 =>
             (fnOut.ema = "unknown" /\ fnOut.sma = "unknown" /\ fnOut.signal = "neutral")
       /\ fnOut.signal # "unknown"

\* the two families disagree (one says buy) and the combined signal is neutral
C5_Witness ==
    /\ fnOut.done /\ Len(fnIn) >= 20
    /\ fnOut.ema # fnOut.sma /\ "buy" \in {fnOut.ema, fnOut.sma}
    /\ fnOut.signal = "neutral"

-----------------------------------------------------------------------------
(* getCurrentPoL as a function of the ledger and the candle store, checked   *)
(* under SpecPoL.  Amounts and profit/loss count units of 10^-8.             *)

\* 1.00000000
One == 10 ^ FixedDigits

MaxLedger == 2

Order(symbol, sig, price, amount) ==
    [symbol |-> symbol, signal |-> sig, price |-> price, amount |-> amount, timestamp |-> 1]

\* single orders, among them 2 units bought or sold at 100
SingleOrders ==
    { Order(s, sig, price, amount) :
        s \in SymbolSet, sig \in TradeSignals, price \in {100, 105}, amount \in {2 * One, 7500000} }

SmallOrders ==
    { Order(s, sig, price, amount) :
        s \in SymbolSet, sig \in TradeSignals, price \in {100, 105}, amount \in {7500000} }

RECURSIVE LedgersOf(_)
LedgersOf(n) ==
    IF n = 0 THEN {<<>>}
    ELSE LET shorter == LedgersOf(n - 1)
         IN shorter \cup {Append(l, o) : l \in {m \in shorter : Len(m) = n - 1},
                                         o \in SmallOrders}

Ledgers == LedgersOf(MaxLedger) \cup { <<o>> : o \in SingleOrders }

\* candle stores: a symbol has no candles yet, or a series ending at 110 or 95
Stores ==
    { [s \in keys |-> <<Candle(1, 100), Candle(2, last[s])>>] :
        keys \in SUBSET SymbolSet, last \in [SymbolSet -> {110, 95}] }

PoLInputs == { [myOrders |-> l, candles |-> c, tickers |-> <<>>] : l \in Ledgers, c \in Stores }

InitPoL == Constructed /\ fnIn \in PoLInputs /\ fnOut = NotDone

ApplyPoL ==
    /\ ~fnOut.done
    /\ fnOut' = [done |-> TRUE, value |-> getCurrentPoL(fnIn)]
    /\ UNCHANGED <<started, wsState, openCalls, closeEvents, snapPending, botVars, now,
                   lastEvent, calls, emitted, evals, logs, failure, fnIn>>

SpecPoL == InitPoL /\ [][ApplyPoL]_vars

\* what one order is worth against its symbol's last close; nothing when the
\* symbol has no candle data
Gain(o, store) ==
    IF o.symbol \in DOMAIN store
    THEN (IF o.signal = "buy" THEN 1 ELSE 0 - 1)
         * (store[o.symbol][Len(store[o.symbol])].close - o.price) * o.amount
    ELSE 0

RECURSIVE SumOver(_, _, _)
SumOver(idx, ledger, store) ==
    IF idx = {} THEN 0
    ELSE LET i == CHOOSE k \in idx : TRUE
         IN Gain(ledger[i], store) + SumOver(idx \ {i}, ledger, store)

TotalGain(ledger, store) == SumOver(DOMAIN ledger, ledger, store)

\* C7: getCurrentPoL is the sum, over the orders whose symbol has candle data,
\* of direction * (last close - price) * amount; 0 for the empty ledger, 20
\* for one buy of 2 at 100 with last close 110, and -20 for the same as a sell.
C7_MarkToMarket ==
    fnOut.done =>
       /\ fnOut.value = TotalGain(fnIn.myOrders, fnIn.candles)
       /\ fnIn.myOrders = <<>> => fnOut.value = 0
       /\ \A sig \in TradeSignals :
             ( /\ fnIn.myOrders = <<Order(BTCUSD, sig, 100, 2 * One)>>
               /\ BTCUSD \in DOMAIN fnIn.candles
               /\ fnIn.candles[BTCUSD][2].close = 110 )
             => fnOut.value = (IF sig = "buy" THEN 20 ELSE 0 - 20) * One

\* the sell of 2 at 100 against a last close of 110, worth -20
C7_Witness ==
    /\ fnOut.done
    /\ fnIn.myOrders = <<Order(BTCUSD, "sell", 100, 2 * One)>>
    /\ BTCUSD \in DOMAIN fnIn.candles /\ fnIn.candles[BTCUSD][2].close = 110
    /\ fnOut.value = 0 - 20 * One

-----------------------------------------------------------------------------
(* End to end, checked under SpecE2E: the bot starts, the socket opens, one  *)
(* ticker {bid: 100, ask: 101} for BTCUSD arrives, and then E2ELen candles   *)
(* whose closes rise by a fixed step, either as one snapshot (newest first)  *)
(* or one update at a time.                                                  *)

E2ELen == 25

E2ESteps == {1, 2, 3}

E2ECandle(i) == Candle(i, 100 + fnIn.step * i)

InitE2E == Constructed /\ fnIn \in { [step |-> k] : k \in E2ESteps } /\ fnOut = NotDone

E2ETicker ==
    /\ BTCUSD \notin DOMAIN tickers
    /\ OnTickerEvent(TickerPair(BTCUSD), [bid |-> 100, ask |-> 101])
    /\ UNCHANGED snapPending

E2ESnapshot ==
    /\ BTCUSD \in DOMAIN tickers /\ BTCUSD \in snapPending /\ Held(BTCUSD) = <<>>
    /\ \E rnd \in RandNums :
          OnCandleEvent([isArray |-> TRUE,
                         items |-> [i \in 1..E2ELen |-> E2ECandle(E2ELen + 1 - i)]],
                        CandleKey(BTCUSD), rnd)
    /\ snapPending' = snapPending \ {BTCUSD}

E2EUpdate ==
    /\ BTCUSD \in DOMAIN tickers /\ BTCUSD \in snapPending /\ Len(Held(BTCUSD)) < E2ELen
    /\ \E rnd \in RandNums :
          OnCandleEvent([isArray |-> FALSE, item |-> E2ECandle(Len(Held(BTCUSD)) + 1)],
                        CandleKey(BTCUSD), rnd)
    /\ UNCHANGED snapPending

NextE2E == Start \/ OnOpen \/ E2ETicker \/ E2ESnapshot \/ E2EUpdate

SpecE2E == InitE2E /\ [][NextE2E]_vars

\* the last of the E2ELen candles has just been handled
E2EDone == Len(Held(BTCUSD)) = E2ELen /\ lastEvent.type = "candle"

LastOrder == myOrders[Len(myOrders)]

\* the part of C8 that needs no amendment: the signal on the last candle is
\* buy and the order appended for it is a BTCUSD buy at the last close
E2EBuyAtLastClose ==
    /\ Len(evals) = 1 /\ evals[1].symbol = BTCUSD /\ evals[1].signal = "buy"
    /\ Len(myOrders) >= 1
    /\ LastOrder.symbol = BTCUSD /\ LastOrder.signal = "buy"
    /\ LastOrder.price = 100 + fnIn.step * E2ELen
    /\ LastOrder.price = candles[BTCUSD][E2ELen].close
    /\ LastOrder.timestamp = now

\* C8 as claimed: after the ticker and the 25 rising candles the signal on
\* the last candle is buy, an order at the last close is appended, and
\* getCurrentPoL() is 0 right after it.
C8_PoLZeroAfterOrder ==
    E2EDone => (E2EBuyAtLastClose /\ evals[1].pol = 0 /\ getCurrentPoL(Bot) = 0)

\* C8 as the code has it: the signal on the last candle is buy and an order
\* at the last close is appended; getCurrentPoL() right after it is 0 when
\* that order is the only one in the ledger (the candles came as one
\* snapshot), and otherwise it is the gain, never negative, of the orders
\* appended for the earlier candles (from the 20th on when the candles come
\* one at a time), the new order itself contributing 0.
C8_EndToEnd ==
    E2EDone =>
       /\ E2EBuyAtLastClose
       /\ evals[1].pol = getCurrentPoL(Bot)
       /\ Len(myOrders) = 1 => evals[1].pol = 0
       /\ evals[1].pol = TotalGain(SubSeq(myOrders, 1, Len(myOrders) - 1), candles)
       /\ evals[1].pol >= 0
       /\ Len(myOrders) <= E2ELen - 19

\* the snapshot case: one order of a positive amount, profit/loss 0
C8_Witness ==
    /\ E2EDone /\ lastEvent.payload.isArray
    /\ Len(myOrders) = 1 /\ myOrders[1].amount > 0
    /\ evals[1].pol = 0

-----------------------------------------------------------------------------
(* Further properties of the running engine, checked under Spec *)

\* C11: no failure escapes the core: whatever inbound events arrive (open,
\* close, error, ticker, candle events with an object or an array, malformed
\* candles and malformed channel keys), every callback returns normally and
\* no state is reached in which a handler ended by an exception.
C11_NoFailureEscapes == failure = "none"

\* the keys under which anything is stored or handed on
StoreKeys ==
    DOMAIN tickers \cup DOMAIN candles
        \cup {myOrders[i].symbol : i \in 1..Len(myOrders)}
        \cup {emitted[i].symbol : i \in 1..Len(emitted)}

\* C12: canonicalization strips the pair prefix: "tBTCUSD" gives "BTCUSD",
\* "BTCUSD" gives itself, "t" + s gives s for every configured symbol s; and
\* every key of the ticker store and of the candle store (and every symbol
\* emitted or put in the ledger) is a configured canonical symbol, never a
\* pair string or a channel key.
C12_CanonicalKeys ==
    /\ formatSymbol(<<"t", "B", "T", "C", "U", "S", "D">>) = BTCUSD
    /\ formatSymbol(BTCUSD) = BTCUSD
    /\ \A s \in SymbolSet : formatSymbol(TickerPair(s)) = s /\ formatSymbol(s) = s
    /\ StoreKeys \subseteq SymbolSet
    /\ \A s \in SymbolSet : TickerPair(s) \notin StoreKeys /\ CandleKey(s) \notin StoreKeys

\* both stores hold every configured symbol, each put there from a prefixed pair
C12_Witness ==
    /\ DOMAIN tickers = SymbolSet
    /\ DOMAIN candles = SymbolSet
    /\ lastEvent.type = "candle"

\* the last close of the series stored for a symbol
LastCloseOf(store, symbol) == store[symbol][Len(store[symbol])].close

\* C13: every order a step appends has the price of the last close of its
\* symbol's series as the series is when the order is appended (not the
\* ticker's bid or ask, not an earlier close), so the order's own
\* mark-to-market term is 0 right after the step.
C13_OrderAtLastClose ==
    [][ \A i \in (Len(myOrders) + 1)..Len(myOrders') :
           /\ myOrders'[i].symbol \in DOMAIN candles'
           /\ myOrders'[i].price = LastCloseOf(candles', myOrders'[i].symbol)
           /\ Gain(myOrders'[i], candles') = 0
      ]_vars

\* an order was just appended at a last close that differs from the close
\* before it and from the ticker's bid and ask
C13_Witness ==
    /\ lastEvent.type = "candle" /\ Len(evals) = 1 /\ Len(myOrders) >= 1
    /\ myOrders[Len(myOrders)].timestamp = now
    /\ \E s \in SymbolSet :
          /\ myOrders[Len(myOrders)].symbol = s
          /\ Len(candles[s]) >= 2
          /\ myOrders[Len(myOrders)].price = LastCloseOf(candles, s)
          /\ myOrders[Len(myOrders)].price # candles[s][Len(candles[s]) - 1].close
          /\ myOrders[Len(myOrders)].price \notin {tickers[s].bid, tickers[s].ask}

\* the symbols of the candles a step handed to the bot
Delivered(batch) == {batch[i].symbol : i \in 1..Len(batch)}

\* the evaluations a step made for a symbol
EvalsOf(list, symbol) == {k \in 1..Len(list) : list[k].symbol = symbol}

\* C14: a delivery evaluates each symbol it carries once, however many
\* candles it carries for it, and after all of them are on the series (the
\* signal is the one of the whole series afterwards); the evaluation is the
\* no-op of C10 when the symbol has no ticker.  It appends at most one order
\* for the symbol, and symbols the delivery does not carry are not evaluated
\* and get no order.
C14_OncePerDelivery ==
    [][ (Handled /\ lastEvent'.type = "candle") =>
          /\ \A s \in Delivered(emitted') :
                /\ Cardinality(EvalsOf(evals', s)) = (IF s \in DOMAIN tickers' THEN 1 ELSE 0)
                /\ \A k \in EvalsOf(evals', s) :
                      evals'[k].signal = signal(formatCandles(candles'[s]))
                /\ candles'[s] = Held(s) \o [i \in 1..Len(emitted') |-> emitted'[i].candle]
          /\ \A s \in SymbolSet \ Delivered(emitted') :
                /\ EvalsOf(evals', s) = {}
                /\ Held(s) = IF s \in DOMAIN candles' THEN candles'[s] ELSE <<>>
          /\ Len(myOrders') - Len(myOrders) <= Cardinality(Delivered(emitted'))
          /\ \A i \in (Len(myOrders) + 1)..Len(myOrders') :
                myOrders'[i].symbol \in Delivered(emitted')
      ]_vars

\* a delivery of 20 candles for one symbol was evaluated once and appended one
\* order, while the other symbol, ready as well, was left alone
C14_Witness ==
    /\ lastEvent.type = "candle" /\ Len(emitted) = SnapLen
    /\ Len(evals) = 1 /\ evals[1].symbol = BTCUSD
    /\ Len(myOrders) = 1 /\ myOrders[1].timestamp = now
    /\ DOMAIN tickers = SymbolSet /\ DOMAIN candles = SymbolSet

-----------------------------------------------------------------------------
(* Short series, checked under SpecSignal *)

NoVotes == [buy |-> 0, sell |-> 0]

\* the periods a series is long enough for
Covered(values) == {p \in PeriodSet : p <= Len(values)}

\* C15: a period longer than the non-empty series has no average and votes
\* neither buy nor sell, in either family; so a non-empty series of fewer than
\* 20 closes gets neutral from both families and as combined signal, and
\* checkTrade appends no order for it: an order needs at least 20 candles.
C15_NoVoteWithoutHistory ==
    (fnOut.done /\ Len(fnIn) > 0) =>
       /\ \A p \in PeriodSet \ Covered(fnIn) :
             /\ EMACalculate(p, fnIn) = <<>> /\ SMACalculate(p, fnIn) = <<>>
             /\ VoteStep(NoVotes, EMACalculate(p, fnIn), fnIn[Len(fnIn)]) = NoVotes
             /\ VoteStep(NoVotes, SMACalculate(p, fnIn), fnIn[Len(fnIn)]) = NoVotes
       /\ EmaVotes(fnIn, 1, NoVotes).buy + EmaVotes(fnIn, 1, NoVotes).sell
             <= Cardinality(Covered(fnIn))
       /\ SmaVotes(fnIn, 1, NoVotes).buy + SmaVotes(fnIn, 1, NoVotes).sell
             <= Cardinality(Covered(fnIn))
       /\ Len(fnIn) < 20 =>
             /\ fnOut.ema = "neutral" /\ fnOut.sma = "neutral" /\ fnOut.signal = "neutral"
             /\ fnOut.orders = <<>>
       /\ fnOut.orders # <<>> => Len(fnIn) >= 20

\* 19 closes: the periods 5 and 10 both vote buy in both families, the period
\* 20 has no average, and no order is placed
C15_Witness ==
    /\ fnOut.done /\ Len(fnIn) = 19
    /\ \A p \in {5, 10} : EmaBelow(fnIn, p) /\ SmaBelow(fnIn, p)
    /\ EmaVotes(fnIn, 1, NoVotes) = [buy |-> 2, sell |-> 0]
    /\ fnOut.signal = "neutral" /\ fnOut.orders = <<>>

-----------------------------------------------------------------------------
(* Frame conditions of the handlers, checked under Spec *)

\* C16: the handler of 'error' only logs: it makes no open(), subscribeTicker
\* or subscribeCandles call and leaves the ticker store, the candle store, the
\* ledger and the connection as they are.  Only start() and the handler of
\* 'close' call open(), once each time, so from start() on the number of
\* open() calls is 1 plus the number of close events received.
C16_ErrorOnlyLogs ==
    [][ /\ (Handled /\ lastEvent'.type = "error") =>
              /\ calls' = <<>>
              /\ logs' = <<"Bitfinex: error">>
              /\ emitted' = <<>> /\ evals' = <<>>
              /\ UNCHANGED <<tickers, candles, myOrders, openCalls, closeEvents, wsState>>
        /\ (\E i \in 1..Len(calls') : calls'[i].op = "open")
              <=> lastEvent'.type \in {"start", "close"}
        /\ openCalls' # openCalls =>
              /\ openCalls' = openCalls + 1
              /\ lastEvent'.type \in {"start", "close"}
              /\ lastEvent'.type = "close" <=> closeEvents' = closeEvents + 1
        /\ started' => openCalls' = 1 + closeEvents'
      ]_vars

\* an error arrived after a close, with a ticker stored
C16_Witness ==
    /\ lastEvent.type = "error" /\ calls = <<>>
    /\ closeEvents >= 1 /\ openCalls = 1 + closeEvents
    /\ wsState = "connecting"
    /\ DOMAIN tickers # {}

\* the candles of an event's payload, in the payload's order
ItemsOf(payload) == IF payload.isArray THEN payload.items ELSE <<payload.item>>

\* those of them that carry a timestamp
ValidOf(payload) == SelectSeq(ItemsOf(payload), LAMBDA c : "mts" \in DOMAIN c)

\* C17: a candle event none of whose candles carries a timestamp (one object
\* without timestamp, an array of such candles, an empty array) is discarded
\* whole: nothing is emitted, the stores and the ledger stay as they are and
\* nothing is evaluated.  An event with at least one such candle emits one
\* batch holding exactly its timestamped candles (an array's in reversed
\* order) under the canonical symbol of its key, and the bot appends exactly
\* these.
C17_AllInvalidDiscarded ==
    [][ (Handled /\ lastEvent'.type = "candle" /\ failure' = "none") =>
          LET valid == ValidOf(lastEvent'.payload)
              symbol == formatSymbol(Split(lastEvent'.pair)[3])
          IN IF Len(valid) = 0
             THEN /\ emitted' = <<>>
                  /\ evals' = <<>>
                  /\ logs' = <<"Candle issue">>
                  /\ UNCHANGED <<tickers, candles, myOrders>>
             ELSE /\ Len(emitted') = Len(valid)
                  /\ \A i \in 1..Len(valid) :
                        /\ emitted'[i].symbol = symbol
                        /\ emitted'[i].candle
                             = IF lastEvent'.payload.isArray
                               THEN valid[Len(valid) + 1 - i] ELSE valid[i]
                  /\ Len(candles'[symbol]) = Len(Held(symbol)) + Len(valid)
                  /\ logs' = <<>>
      ]_vars

\* an empty array arrived when a ticker and a series were stored, and was discarded
C17_Witness ==
    /\ lastEvent.type = "candle" /\ failure = "none"
    /\ lastEvent.payload.isArray /\ lastEvent.payload.items = <<>>
    /\ emitted = <<>> /\ logs = <<"Candle issue">>
    /\ DOMAIN tickers # {} /\ DOMAIN candles # {}

\* C18: a ticker event overwrites the ticker of its own canonical symbol with
\* the event's bid and ask as they came, whatever was stored for it before,
\* and nothing else: the tickers of the other symbols, every series and the
\* ledger stay as they are, nothing is evaluated and no order is appended.
C18_TickerOnlyOverwrites ==
    [][ (Handled /\ lastEvent'.type = "ticker") =>
          LET symbol == formatSymbol(lastEvent'.pair)
          IN /\ DOMAIN tickers' = DOMAIN tickers \cup {symbol}
             /\ tickers'[symbol] = [bid |-> lastEvent'.payload.bid,
                                    ask |-> lastEvent'.payload.ask]
             /\ \A k \in DOMAIN tickers \ {symbol} : tickers'[k] = tickers[k]
             /\ UNCHANGED <<candles, myOrders>>
             /\ evals' = <<>>
             /\ emitted' = <<[symbol |-> symbol, prices |-> tickers'[symbol]]>>
      ]_vars

\* a ticker replaced an earlier, different one of its symbol while the other
\* symbol had a ticker too and the ledger held an order
C18_Witness ==
    /\ lastEvent.type = "ticker"
    /\ DOMAIN tickers = SymbolSet
    /\ \E s \in SymbolSet, other \in SymbolSet :
          /\ s = formatSymbol(lastEvent.pair) /\ other # s
          /\ tickers[s].bid = 200 /\ tickers[other].bid = 100
          /\ s \in DOMAIN candles
    /\ Len(myOrders) >= 1

-----------------------------------------------------------------------------
(* The ledger and the stores, checked under Spec *)

\* an order's mark-to-market term, read from the series without asking
\* whether there is one
TermOf(o) ==
    (IF o.signal = "buy" THEN 1 ELSE 0 - 1) * (LastCloseOf(candles, o.symbol) - o.price) * o.amount

RECURSIVE SumOfTerms(_)
SumOfTerms(i) == IF i = 0 THEN 0 ELSE SumOfTerms(i - 1) + TermOf(myOrders[i])

\* C19: in every reachable state every order of the ledger belongs to a
\* symbol that has a ticker and a non-empty series, so getCurrentPoL leaves
\* out no order for want of candles and reads no last close of an empty
\* series: it is the sum of the terms of all orders.
C19_OrdersHaveTickerAndSeries ==
    /\ \A i \in 1..Len(myOrders) :
          /\ myOrders[i].symbol \in DOMAIN tickers
          /\ myOrders[i].symbol \in DOMAIN candles
          /\ Len(candles[myOrders[i].symbol]) >= 1
    /\ getCurrentPoL(Bot) = SumOfTerms(Len(myOrders))

\* two orders in the ledger, the first no longer at the last close
C19_Witness ==
    /\ Len(myOrders) = 2
    /\ myOrders[1].price # LastCloseOf(candles, myOrders[1].symbol)
    /\ getCurrentPoL(Bot) # 0

-----------------------------------------------------------------------------
(* Two runs side by side, checked under SpecTwin: tickers, candles and       *)
(* myOrders are the bot of the first run, fnOut holds the bot of the second  *)
(* (and what it last evaluated).  Both get the same events and the same      *)
(* random draws; only the bid and ask of a ticker event may differ.          *)

TwinStart == [tickers |-> <<>>, candles |-> <<>>, myOrders |-> <<>>, evals |-> <<>>]

InitTwin == Constructed /\ fnIn = [fn |-> "twin"] /\ fnOut = TwinStart

\* ws.on('ticker', ...) in both runs, each with its own bid and ask
TwinTickerEvent ==
    /\ started /\ failure = "none" /\ wsState = "open" /\ now < MaxClock
    /\ \E s \in SymbolSet, ticker \in TickerPayloads, other \in TickerPayloads :
          \E one \in {onUpdateTickers(Bot, onTicker(TickerPair(s), ticker))},
             two \in {onUpdateTickers(fnOut, onTicker(TickerPair(s), other))} :
                /\ tickers' = one.tickers
                /\ candles' = one.candles
                /\ myOrders' = one.myOrders
                /\ fnOut' = [two EXCEPT !.evals = <<>>]
                /\ emitted' = <<onTicker(TickerPair(s), ticker)>>
                /\ lastEvent' = [type |-> "ticker", pair |-> TickerPair(s), payload |-> ticker]
    /\ now' = now + 1
    /\ calls' = <<>>
    /\ evals' = <<>>
    /\ logs' = <<>>
    /\ UNCHANGED <<started, wsState, openCalls, closeEvents, snapPending, failure, fnIn>>

\* ws.on('candle', ...) in both runs, with the same payload and the same draw
TwinCandleEvent ==
    /\ started /\ failure = "none" /\ wsState = "open" /\ now < MaxClock
    /\ \E s \in SymbolSet, payload \in ArrayPayloads \cup ObjectPayloads, rnd \in RandNums :
          /\ payload.isArray <=> s \in snapPending
          /\ Len(Held(s)) + (IF payload.isArray THEN Len(payload.items) ELSE 1) <= MaxSeries
          /\ snapPending' = snapPending \ {s}
          /\ lastEvent' = [type |-> "candle", pair |-> CandleKey(s), payload |-> payload]
          /\ \E sticks \in {Sticks(payload, CandleKey(s))} :
                IF Len(sticks) = 0
                THEN /\ logs' = <<"Candle issue">>
                     /\ emitted' = <<>>
                     /\ evals' = <<>>
                     /\ fnOut' = [fnOut EXCEPT !.evals = <<>>]
                     /\ UNCHANGED botVars
                ELSE \E one \in {onUpdateCandles(Bot, sticks,
                                                 [k \in 1..Len(sticks) |-> rnd], now + 1)},
                        two \in {onUpdateCandles(fnOut, sticks,
                                                 [k \in 1..Len(sticks) |-> rnd], now + 1)} :
                        /\ logs' = <<>>
                        /\ emitted' = sticks
                        /\ evals' = one.evals
                        /\ tickers' = one.bot.tickers
                        /\ candles' = one.bot.candles
                        /\ myOrders' = one.bot.myOrders
                        /\ fnOut' = [two.bot EXCEPT !.evals = two.evals]
    /\ now' = now + 1
    /\ calls' = <<>>
    /\ UNCHANGED <<started, wsState, openCalls, closeEvents, failure, fnIn>>

NextTwin == Start \/ OnOpen \/ TwinTickerEvent \/ TwinCandleEvent

SpecTwin == InitTwin /\ [][NextTwin]_vars

\* symbol, signal and price of every order of a ledger
Trades(ledger) ==
    [i \in 1..Len(ledger) |->
        [symbol |-> ledger[i].symbol, signal |-> ledger[i].signal, price |-> ledger[i].price]]

\* C20: two runs fed the same events and the same draws, whose ticker events
\* differ in bid and ask only, have at every step ledgers that agree on the
\* symbol, signal and price of every order (and on everything else of it),
\* the same series, the same evaluations and the same getCurrentPoL(): a
\* ticker only makes its symbol ready.
C20_TickerValuesDoNotMatter ==
    /\ DOMAIN fnOut.tickers = DOMAIN tickers
    /\ Trades(fnOut.myOrders) = Trades(myOrders)
    /\ fnOut.myOrders = myOrders
    /\ fnOut.candles = candles
    /\ fnOut.evals = evals
    /\ getCurrentPoL([tickers |-> fnOut.tickers, candles |-> fnOut.candles,
                      myOrders |-> fnOut.myOrders]) = getCurrentPoL(Bot)

\* the two runs hold different tickers for a symbol and have each placed two
\* orders for it, the first no longer at the last close
C20_Witness ==
    /\ Len(myOrders) = 2 /\ Len(fnOut.myOrders) = 2
    /\ tickers[myOrders[1].symbol].bid # fnOut.tickers[myOrders[1].symbol].bid
    /\ myOrders[1].symbol = myOrders[2].symbol
    /\ getCurrentPoL(Bot) # 0

====
